---- MODULE Spec2Model ----
(***************************************************************************)
(* Model of montecarlo/montecarlo.py: the 1-D spin configuration           *)
(* (SpinConfig1D) and the 1-D Ising Hamiltonian (IsingHamiltonian1D).      *)
(*                                                                         *)
(* Python objects live in a small object store (a function from reference  *)
(* names to objects) so that aliasing and copy.deepcopy are explicit.      *)
(* Reals are modelled by integers; every quantity of the code is a sum of  *)
(* products of the inputs, so exact integer arithmetic covers it.          *)
(* Sites are numbered 0..N-1 as in the code; the site i of a configuration *)
(* is element i+1 of the TLA+ sequence.                                    *)
(* A call that raises is recorded in ret.exc with the exception's name.    *)
(***************************************************************************)
EXTENDS Integers, Sequences, FiniteSets, TLC

VARIABLES
    conf,      \* the caller's SpinConfig1D object: [config, N, pbc]
    ham,       \* the IsingHamiltonian1D object: [J, h, mu, pbc]
    pre,       \* the caller's configuration object as it was before the last call
    last,      \* the last call: [op, arg]
    ret,       \* what the last call returned or raised: [exc, val, trial]
    streak,    \* consecutive successful flip_site calls on the same index, capped at 2
    pc,        \* "idle", or "sweep" while a Metropolis sweep is running
    sweep_i,   \* loop index of the running sweep
    visited    \* sites the running (or last) sweep has visited, in order

vars == <<conf, ham, pre, last, ret, streak, pc, sweep_i, visited>>

\* Bounds of the model
MaxN == 3
MaxJ == 1
MuVals == {2}
HVals == {-1, 2}
TVals == {0, 1}

Sizes == 1..MaxN
JVals == {MaxJ}

\* Arguments tried for a site index / a magnetization, around the valid range
IndexArgs(n) == (0 - n - 1)..n
MagArgs(n) == (0 - 1)..(n + 1)

----------------------------------------------------------------------------
\* Return values

Returned(v) == [exc |-> "none", val |-> v, trial |-> <<>>]
Raised(e) == [exc |-> e, val |-> 0, trial |-> <<>>]

----------------------------------------------------------------------------
\* SpinConfig1D

\* np.zeros(N, dtype=int)
zeros(n) == [k \in 1..n |-> 0]

\* SpinConfig1D.__init__(N, pbc)
SpinConfig1D(n, p) == [config |-> zeros(n), N |-> n, pbc |-> p]

\* numpy indexing of a 1-D array: -len <= i < len, negative indices count from the end
index_ok(cfg, i) == i >= 0 - Len(cfg) /\ i < Len(cfg)

index_pos(cfg, i) == IF i < 0 THEN i + Len(cfg) + 1 ELSE i + 1

\* SpinConfig1D.__getitem__(i)
getitem(obj, i) ==
    IF index_ok(obj.config, i)
    THEN Returned(obj.config[index_pos(obj.config, i)])
    ELSE Raised("IndexError")

\* flip_site that writes the +1/-1 convention into the array
flip_site_pm(hp, r, i) ==
    IF ~index_ok(hp[r].config, i)
    THEN [heap |-> hp, exc |-> "IndexError"]
    ELSE [heap |-> [hp EXCEPT ![r].config[index_pos(hp[r].config, i)] =
                                  IF @ = 1 THEN 0 - 1 ELSE 1],
          exc |-> "none"]

\* flip_site without the else: the site is set up whatever it was
flip_site_noelse(hp, r, i) ==
    IF ~index_ok(hp[r].config, i)
    THEN [heap |-> hp, exc |-> "IndexError"]
    ELSE [heap |-> [hp EXCEPT ![r].config[index_pos(hp[r].config, i)] = 1],
          exc |-> "none"]

\* SpinConfig1D.flip_site(i), on the object that reference r names in store hp
flip_site(hp, r, i) ==
    IF ~index_ok(hp[r].config, i)
    THEN [heap |-> hp, exc |-> "IndexError"]
    ELSE [heap |-> [hp EXCEPT ![r].config[index_pos(hp[r].config, i)] =
                                  IF @ = 1 THEN 0 ELSE 1],
          exc |-> "none"]

\* range(0, self.N-1): the population initialize() samples from
sample_population(n) == 0..(n - 2)

\* random.sample(population, M) raises ValueError unless 0 <= M <= len(population)
sample_ok(n, M) == M >= 0 /\ M <= Cardinality(sample_population(n))

\* the configuration after "for i in randomlist: self.config[i] = 1"
set_up(n, S) == [k \in 1..n |-> IF (k - 1) \in S THEN 1 ELSE 0]

----------------------------------------------------------------------------
\* IsingHamiltonian1D

\* IsingHamiltonian1D.__init__(J, h, mu, pbc): h is stored as given
IsingHamiltonian1D(J, h, mu, p) == [J |-> J, h |-> h, mu |-> mu, pbc |-> p]

\* what may be passed as h: a list of N numbers, or a bare number
ListH(l) == [kind |-> "list", c |-> 0, list |-> l]
ScalarH(c) == [kind |-> "scalar", c |-> c, list |-> <<>>]

HArgs(n) == {ListH(l) : l \in [1..n -> HVals]} \cup {ScalarH(c) : c \in HVals}

\* config[i] inside expectation_value, i always in range there
spin(obj, i) == obj.config[i + 1]

\* for i in range(config.N-1): aligned bond -J, anti-aligned bond +J
RECURSIVE bond_loop(_, _, _, _)
bond_loop(H, obj, i, e) ==
    IF i >= obj.N - 1 THEN e
    ELSE bond_loop(H, obj, i + 1,
                   IF spin(obj, i) = spin(obj, i + 1) THEN e - H.J ELSE e + H.J)

\* if self.pbc: the bond between the last and the first site
wrap_bond(H, obj, e) ==
    IF H.pbc
    THEN IF spin(obj, obj.N - 1) = spin(obj, 0) THEN e - H.J ELSE e + H.J
    ELSE e

\* for i in range(config.N): up site -mu*h[i], down site +mu*h[i]
RECURSIVE field_loop(_, _, _, _)
field_loop(H, obj, i, e) ==
    IF i >= obj.N THEN e
    ELSE field_loop(H, obj, i + 1,
                    IF spin(obj, i) # 0 THEN e - H.mu * H.h.list[i + 1]
                                        ELSE e + H.mu * H.h.list[i + 1])

\* expectation_value that takes the wraparound flag from the configuration
expectation_value_cfgpbc(H, obj) ==
    IF H.h.kind # "list" /\ obj.N > 0 THEN Raised("TypeError")
    ELSE Returned(field_loop(H, obj, 0,
                     wrap_bond([H EXCEPT !.pbc = obj.pbc], obj, bond_loop(H, obj, 0, 0))))

\* expectation_value that broadcasts a bare number h to every site
expectation_value_broadcast(H, obj) ==
    LET Hl == IF H.h.kind = "list" THEN H
              ELSE [H EXCEPT !.h = ListH([k \in 1..obj.N |-> H.h.c])]
    IN Returned(field_loop(Hl, obj, 0, wrap_bond(Hl, obj, bond_loop(Hl, obj, 0, 0))))

\* IsingHamiltonian1D.expectation_value(config); self.h[i] on a bare number
\* raises TypeError, after the bond loops, which change nothing
expectation_value(H, obj) ==
    IF H.h.kind # "list" /\ obj.N > 0 THEN Raised("TypeError")
    ELSE Returned(field_loop(H, obj, 0, wrap_bond(H, obj, bond_loop(H, obj, 0, 0))))

\* a "copy" that hands back the same object
deepcopy_alias(hp, r) == [heap |-> hp, ref |-> r]

\* cp.deepcopy(config): a new object, equal to the one r names
deepcopy(hp, r) ==
    [heap |-> hp @@ ("config_trial" :> hp[r]), ref |-> "config_trial"]

\* delta_e_for_flip with the two energies subtracted the wrong way round
delta_e_for_flip_swapped(H, i, hp, r) ==
    LET c == deepcopy(hp, r)
        f == flip_site(c.heap, c.ref, i)
        et == expectation_value(H, f.heap[c.ref])
        e0 == expectation_value(H, f.heap[r])
    IN IF f.exc # "none" THEN [heap |-> f.heap, ret |-> Raised(f.exc)]
       ELSE IF et.exc # "none" THEN [heap |-> f.heap, ret |-> Raised(et.exc)]
       ELSE [heap |-> f.heap,
             ret |-> [exc |-> "none", val |-> e0.val - et.val,
                      trial |-> f.heap[c.ref].config]]

\* IsingHamiltonian1D.delta_e_for_flip(i, config): config is reference r in
\* store hp; returns the store after the call and (config_trial, delta)
delta_e_for_flip(H, i, hp, r) ==
    LET c == deepcopy(hp, r)
        f == flip_site(c.heap, c.ref, i)
        et == expectation_value(H, f.heap[c.ref])
        e0 == expectation_value(H, f.heap[r])
    IN IF f.exc # "none" THEN [heap |-> f.heap, ret |-> Raised(f.exc)]
       ELSE IF et.exc # "none" THEN [heap |-> f.heap, ret |-> Raised(et.exc)]
       ELSE [heap |-> f.heap,
             ret |-> [exc |-> "none", val |-> et.val - e0.val,
                      trial |-> f.heap[c.ref].config]]

\* the store holding only the caller's configuration
Store(obj) == [config |-> obj]

----------------------------------------------------------------------------
\* State machine

Init ==
    /\ \E n \in Sizes, p \in BOOLEAN :
          /\ conf = SpinConfig1D(n, p)
          /\ \E J \in JVals, h \in HArgs(n), mu \in MuVals, hp \in BOOLEAN :
                ham = IsingHamiltonian1D(J, h, mu, hp)
    /\ pre = conf
    /\ last = [op |-> "__init__", arg |-> 0]
    /\ ret = Returned(0)
    /\ streak = 0
    /\ pc = "idle"
    /\ sweep_i = 0
    /\ visited = <<>>

\* bookkeeping common to every call made while no sweep is running
Call(op, arg, r, newconf) ==
    /\ pc = "idle"
    /\ last' = [op |-> op, arg |-> arg]
    /\ ret' = r
    /\ pre' = conf
    /\ conf' = newconf
    /\ streak' = IF op = "flip_site" /\ r.exc = "none"
                 THEN IF last.op = "flip_site" /\ last.arg = arg /\ streak >= 1
                      THEN 2 ELSE 1
                 ELSE 0
    /\ visited' = <<>>
    /\ UNCHANGED <<ham, pc, sweep_i>>

\* conf.initialize(M)
Initialize ==
    \E M \in MagArgs(conf.N) :
        IF sample_ok(conf.N, M)
        THEN \E S \in SUBSET sample_population(conf.N) :
                /\ Cardinality(S) = M
                /\ Call("initialize", M, Returned(0),
                        [conf EXCEPT !.config = set_up(conf.N, S)])
        ELSE Call("initialize", M, Raised("ValueError"),
                  [conf EXCEPT !.config = zeros(conf.N)])

\* conf[i]
GetItem ==
    \E i \in IndexArgs(conf.N) :
        Call("getitem", i, getitem(conf, i), conf)

\* conf.flip_site(i)
FlipSite ==
    \E i \in IndexArgs(conf.N) :
        LET f == flip_site(Store(conf), "config", i)
        IN Call("flip_site", i,
                IF f.exc = "none" THEN Returned(0) ELSE Raised(f.exc),
                f.heap["config"])

\* ham.expectation_value(conf)
Energy ==
    LET e == expectation_value(ham, conf)
    IN Call("expectation_value", 0, e, conf)

\* ham.delta_e_for_flip(i, conf)
DeltaEnergy ==
    \E i \in IndexArgs(conf.N) :
        LET d == delta_e_for_flip(ham, i, Store(conf), "config")
        IN Call("delta_e_for_flip", i, d.ret, d.heap["config"])

\* Metropolis acceptance "dE <= 0 or u < exp(-dE/T)" with u drawn from [0, 1):
\* certain when dE <= 0, otherwise decided by the draw
metropolis_accepts(dE) == IF dE <= 0 THEN {TRUE} ELSE BOOLEAN

\* ham.metropolis_sweep(conf, T): entry; T <= 0 is rejected before any work
MetropolisSweepStart ==
    \E T \in TVals :
        IF T <= 0
        THEN Call("metropolis_sweep", T, Raised("InvalidTemperatureError"), conf)
        ELSE /\ pc = "idle"
             /\ pc' = "sweep"
             /\ sweep_i' = 0
             /\ visited' = <<>>
             /\ last' = [op |-> "metropolis_sweep", arg |-> T]
             /\ ret' = Returned(0)
             /\ pre' = conf
             /\ streak' = 0
             /\ UNCHANGED <<conf, ham>>

\* one iteration of the sweep's loop over the sites, at site sweep_i
MetropolisSweepStep ==
    /\ pc = "sweep"
    /\ LET i == sweep_i
           d == delta_e_for_flip(ham, i, Store(conf), "config")
       IN /\ last' = [op |-> "metropolis_step", arg |-> i]
          /\ pre' = conf
          /\ streak' = 0
          /\ IF d.ret.exc # "none"
             THEN /\ ret' = Raised(d.ret.exc)
                  /\ conf' = d.heap["config"]
                  /\ pc' = "idle"
                  /\ UNCHANGED <<sweep_i, visited>>
             ELSE /\ \E accept \in metropolis_accepts(d.ret.val) :
                        conf' = IF accept
                                THEN flip_site(d.heap, "config", i).heap["config"]
                                ELSE d.heap["config"]
                  /\ ret' = Returned(d.ret.val)
                  /\ visited' = Append(visited, i)
                  /\ sweep_i' = i + 1
                  /\ pc' = IF i + 1 >= conf.N THEN "idle" ELSE "sweep"
    /\ UNCHANGED ham

Next ==
    \/ Initialize
    \/ GetItem
    \/ FlipSite
    \/ Energy
    \/ DeltaEnergy
    \/ MetropolisSweepStart
    \/ MetropolisSweepStep

Spec == Init /\ [][Next]_vars

----------------------------------------------------------------------------
\* Vocabulary of the properties

ValidSites(obj) == 0..(obj.N - 1)

UpCount(cfg) == Cardinality({k \in 1..Len(cfg) : cfg[k] = 1})

\* the object with the spin at a valid site i replaced by the other value
Flipped(obj, i) == [obj EXCEPT !.config[i + 1] = 1 - @]

RECURSIVE SumOver(_, _)
SumOver(S, f) ==
    IF S = {} THEN 0
    ELSE LET x == CHOOSE y \in S : TRUE IN f[x] + SumOver(S \ {x}, f)

\* adjacent pairs (i, i+1), plus the wraparound pair (N-1, 0) under pbc,
\* each named by its first site
Bonds(H, obj) == (0..(obj.N - 2)) \cup (IF H.pbc THEN {obj.N - 1} ELSE {})

BondTerm(H, obj) ==
    SumOver(Bonds(H, obj),
            [i \in Bonds(H, obj) |->
                IF obj.config[i + 1] = obj.config[((i + 1) % obj.N) + 1]
                THEN 0 - H.J ELSE H.J])

FieldTerm(H, obj) ==
    SumOver(ValidSites(obj),
            [i \in ValidSites(obj) |->
                IF obj.config[i + 1] = 1 THEN 0 - H.mu * H.h.list[i + 1]
                                         ELSE H.mu * H.h.list[i + 1]])

IsListH == ham.h.kind = "list"

FullOrder(n) == [k \in 1..n |-> k - 1]

----------------------------------------------------------------------------
\* Properties

\* C1: the energy a Hamiltonian with a per-site field list returns is the bond
\* term (-J per aligned and +J per anti-aligned adjacent pair (i, i+1), and
\* the same for the pair (N-1, 0) exactly when the Hamiltonian's pbc is set)
\* plus the field term (-mu*h[i] per up site, +mu*h[i] per down site), with
\* no division by N.
C1_EnergyIsBondPlusField ==
    (last.op = "expectation_value" /\ IsListH) =>
        /\ ret.exc = "none"
        /\ ret.val = BondTerm(ham, pre) + FieldTerm(ham, pre)

C1_Witness ==
    /\ last.op = "expectation_value"
    /\ IsListH
    /\ ham.pbc # conf.pbc
    /\ conf.N >= 2
    /\ UpCount(conf.config) >= 1
    /\ UpCount(conf.config) < conf.N
    /\ ret.val # 0

\* C2: for a valid site i, delta_e_for_flip(i, config) returns the energy of
\* the configuration with site i flipped minus the energy of the
\* configuration, each obtained by a direct energy evaluation.
C2_DeltaConsistency ==
    (last.op = "delta_e_for_flip" /\ last.arg \in ValidSites(pre) /\ IsListH) =>
        /\ ret.exc = "none"
        /\ ret.val = expectation_value(ham, Flipped(pre, last.arg)).val
                        - expectation_value(ham, pre).val

C2_Witness ==
    /\ last.op = "delta_e_for_flip"
    /\ last.arg \in ValidSites(pre)
    /\ IsListH
    /\ UpCount(pre.config) >= 1
    /\ ret.val > 0

\* C3: an energy evaluation and a flip-energy evaluation leave the caller's
\* configuration (spins, N, pbc) as it was, the trial flip being made on a
\* separate copy that is returned, and no step changes the Hamiltonian.
C3_EvaluationsArePure ==
    /\ [](last.op \in {"expectation_value", "delta_e_for_flip"} => conf = pre)
    /\ []((last.op = "delta_e_for_flip" /\ ret.exc = "none") =>
             ret.trial = Flipped(pre, index_pos(pre.config, last.arg) - 1).config)
    /\ [][ham' = ham]_vars

C3_Witness ==
    /\ last.op = "delta_e_for_flip"
    /\ ret.exc = "none"
    /\ ret.trial # conf.config
    /\ UpCount(conf.config) >= 1

\* C4 (as claimed): initialize(M) with 0 <= M <= N completes and leaves
\* exactly M up spins and N-M down spins.
C4_InitializeExactCount ==
    (last.op = "initialize" /\ last.arg >= 0 /\ last.arg <= conf.N) =>
        /\ ret.exc = "none"
        /\ UpCount(conf.config) = last.arg
        /\ Cardinality({k \in 1..conf.N : conf.config[k] = 0}) = conf.N - last.arg

\* C5 (as claimed): initialize(M) with M outside 0..N raises and leaves the
\* spins as they were before the call.
C5_InitializeErrorIsAtomic ==
    (last.op = "initialize" /\ (last.arg < 0 \/ last.arg > conf.N)) =>
        /\ ret.exc # "none"
        /\ conf.config = pre.config

\* C6 (as claimed): conf[i] and flip_site(i) with i outside 0..N-1, negative
\* indices included, raise an index error, return no spin and change no spin.
C6_IndexOutsideRangeFails ==
    (last.op \in {"getitem", "flip_site"} /\ last.arg \notin ValidSites(pre)) =>
        /\ ret.exc = "IndexError"
        /\ conf.config = pre.config

\* C7: one flip_site(i) at a valid site changes the spin at i to the other
\* value of {0,1}; a second flip_site(i) right after it restores the
\* configuration, and with it the energy, of before the first.
C7_FlipInvolution ==
    [][(last'.op = "flip_site" /\ last'.arg \in ValidSites(conf) /\ pc = "idle") =>
          /\ ret'.exc = "none"
          /\ conf'.config[last'.arg + 1] \in {0, 1}
          /\ conf'.config[last'.arg + 1] # conf.config[last'.arg + 1]
          /\ (last.op = "flip_site" /\ last.arg = last'.arg /\ ret.exc = "none") =>
                /\ conf' = pre
                /\ expectation_value(ham, conf') = expectation_value(ham, pre)
      ]_vars

C7_Witness ==
    /\ streak = 2
    /\ last.op = "flip_site"
    /\ last.arg \in ValidSites(conf)
    /\ UpCount(conf.config) >= 1

\* C8: in every reachable state the spin sequence has length N and holds
\* only 0 and 1, right after construction every spin is 0, and no step
\* changes N.
C8_ConfigurationInvariant ==
    /\ [](/\ Len(conf.config) = conf.N
          /\ \A k \in 1..conf.N : conf.config[k] \in {0, 1}
          /\ conf.N \in Sizes
          /\ (last.op = "__init__" => conf.config = zeros(conf.N)))
    /\ [][conf'.N = conf.N]_vars

C8_Witness ==
    /\ last.op = "flip_site"
    /\ ret.exc = "none"
    /\ pre.config # zeros(pre.N)
    /\ UpCount(conf.config) >= 2

C10_SweepInOrder ==
    /\ []((pc = "sweep" /\ IsListH) =>
             /\ sweep_i < conf.N
             /\ visited = FullOrder(sweep_i))
    /\ []((pc = "idle" /\ last.op = "metropolis_step" /\ IsListH) =>
             /\ ret.exc = "none"
             /\ visited = FullOrder(conf.N))
    /\ [][(pc = "sweep" /\ IsListH) =>
             /\ visited' = Append(visited, sweep_i)
             /\ sweep_i' = sweep_i + 1
             /\ \A k \in ValidSites(conf) \ {sweep_i} :
                    conf'.config[k + 1] = conf.config[k + 1]
             /\ conf'.config[sweep_i + 1] \in {0, 1}
             /\ (expectation_value(ham, Flipped(conf, sweep_i)).val
                    - expectation_value(ham, conf).val <= 0) =>
                        conf'.config[sweep_i + 1] # conf.config[sweep_i + 1]
      ]_vars

C10_Witness ==
    /\ pc = "idle"
    /\ last.op = "metropolis_step"
    /\ IsListH
    /\ conf.N >= 2
    /\ visited = FullOrder(conf.N)
    /\ ret.val > 0
    /\ conf = pre
    /\ UpCount(conf.config) >= 1

====
